---- MODULE Spec2Model ----
(***************************************************************************)
(* A model of the pygame platformer in src/main.py: the frame loop of App  *)
(* (event_loop, update, draw, clock tick), the player's physics step, the  *)
(* platform collision, the camera and the platform projection.             *)
(*                                                                         *)
(* Numbers.  pygame's Vector2 holds floats; the model holds every vector   *)
(* component as an integer count of 1/Scale pixel (fixed point).  Sums are *)
(* exact; the two products of the step (velocity.x * PLAYER_FRICTION and   *)
(* dt * acceleration) are rounded to the nearest 1/Scale.  pygame's Rect   *)
(* holds integers (pixels); a float assigned to a Rect attribute is        *)
(* truncated toward zero.  dt is held in milliseconds, as clock.tick       *)
(* returns it before the division by 1000.0.                               *)
(***************************************************************************)
EXTENDS Integers, Sequences, FiniteSets, TLC

VARIABLES keys, dt, player, platforms, camera, overlay, pc, frame, probe

vars == <<keys, dt, player, platforms, camera, overlay, pc, frame, probe>>

---------------------------------------------------------------------------
(* Resolution of the fixed-point numbers: units per pixel. *)
Scale == 10000

(* Program constants (src/main.py:22-35). *)
SCREEN_W == 600
SCREEN_H == 400
VIRTUAL_W == 1000
SPRITE_W == 20
SPRITE_H == 40
FRICTION_E2 == -12
JUMP_PX == -10
SCROLL_PX == 10
FPS == 60

SCREEN_SIZE == [w |-> SCREEN_W, h |-> SCREEN_H]
\* A virtual screen as wide as half the screen.
VIRTUAL_SCREEN_SIZE_Narrow == [w |-> SCREEN_W \div 2, h |-> SCREEN_H]

VIRTUAL_SCREEN_SIZE == [w |-> VIRTUAL_W, h |-> SCREEN_H]
SPRITE_SIZE == [w |-> SPRITE_W, h |-> SPRITE_H]
PLAYER_ACCELERATION == (SCREEN_W * Scale) \div 1000
PLAYER_JUMP == JUMP_PX * Scale
GRAVITY == Scale \div 2

(* Bounds of the model. *)
MaxFrames == 100
KeyPeriod == 40
NominalTick == 17
SlowTick == 100

---------------------------------------------------------------------------
(* Arithmetic helpers. *)

Vec(x, y) == [x |-> x, y |-> y]

Px(n) == n * Scale

\* int(f) of a float f: truncation toward zero, in pixels.
Trunc(a) == IF a >= 0 THEN a \div Scale ELSE -((-a) \div Scale)

\* n / d rounded to the nearest integer (d > 0), ties away from zero.
RoundDiv(n, d) ==
    IF n >= 0 THEN (2 * n + d) \div (2 * d) ELSE -((2 * (-n) + d) \div (2 * d))

---------------------------------------------------------------------------
(* pygame.Rect *)

Rect(x, y, w, h) == [x |-> x, y |-> y, w |-> w, h |-> h]

\* Surface(size).get_rect(topright=position)
GetRectTopright(size, pos) ==
    Rect(Trunc(pos.x) - size.w, Trunc(pos.y), size.w, size.h)

\* rect.midbottom = position
SetMidbottom(r, pos) ==
    [r EXCEPT !.x = Trunc(pos.x) - (r.w \div 2), !.y = Trunc(pos.y) - r.h]

\* vector(rect.midbottom)
Midbottom(r) == Vec(Px(r.x + (r.w \div 2)), Px(r.y + r.h))

\* a.colliderect(b)
Colliderect(a, b) ==
    /\ a.w # 0 /\ a.h # 0 /\ b.w # 0 /\ b.h # 0
    /\ a.x < b.x + b.w
    /\ a.y < b.y + b.h
    /\ a.x + a.w > b.x
    /\ a.y + a.h > b.y

\* a.contains(b)
Contains(a, b) ==
    /\ a.x <= b.x
    /\ a.y <= b.y
    /\ a.x + a.w >= b.x + b.w
    /\ a.y + a.h >= b.y + b.h
    /\ a.x + a.w > b.x
    /\ a.y + a.h > b.y

\* r.clamp_ip(s)
ClampIp(r, s) ==
    LET nx == IF r.w >= s.w THEN s.x + (s.w \div 2) - (r.w \div 2)
              ELSE IF r.x < s.x THEN s.x
              ELSE IF r.x + r.w > s.x + s.w THEN s.x + s.w - r.w
              ELSE r.x
        ny == IF r.h >= s.h THEN s.y + (s.h \div 2) - (r.h \div 2)
              ELSE IF r.y < s.y THEN s.y
              ELSE IF r.y + r.h > s.y + s.h THEN s.y + s.h - r.h
              ELSE r.y
    IN [r EXCEPT !.x = nx, !.y = ny]

\* pg.sprite.spritecollide(sprite, group, False): the indices of the group's
\* sprites whose rect collides with the given rect, in the group's order.
SpriteCollide(r, group) ==
    SelectSeq([i \in 1..Len(group) |-> i],
              LAMBDA i : Colliderect(r, group[i].rect))

\* App.screen_rect
ScreenRect == Rect(0, 0, SCREEN_SIZE.w, SCREEN_SIZE.h)

---------------------------------------------------------------------------
(* Player (src/main.py:83-164).  A player is a record of its position,     *)
(* velocity and acceleration (vectors) and its rect.                       *)

\* Player.__init__(app, position, size, color, velocity)
PlayerInit(position) ==
    [position     |-> position,
     velocity     |-> Vec(0, 0),
     acceleration |-> Vec(0, 0),
     rect         |-> GetRectTopright(SPRITE_SIZE, position)]

\* Player.jump without the grounding test.
Jump_Ungated(p, group) == [p EXCEPT !.velocity.y = PLAYER_JUMP]

\* Player.jump
Jump(p, group) ==
    LET result == SpriteCollide(p.rect, group)
    IN IF result # <<>> THEN [p EXCEPT !.velocity.y = PLAYER_JUMP] ELSE p

\* Player.fix_top(top)
FixTop(p, top) == [p EXCEPT !.position.y = Px(top + 1), !.velocity.y = 0]

\* Player.reached_edge
ReachedEdge(p) == p.rect.x + p.rect.w >= SCREEN_SIZE.w

\* Player.clamp that leaves position as it was.
Clamp_NoResync(p, screen_rect) ==
    IF ~Contains(screen_rect, p.rect)
    THEN [p EXCEPT !.rect = ClampIp(p.rect, screen_rect)]
    ELSE p

\* Player.clamp that also stops the fall, as a landing does.
Clamp_StopsFall(p, screen_rect) ==
    IF ~Contains(screen_rect, p.rect)
    THEN LET r == ClampIp(p.rect, screen_rect)
         IN [p EXCEPT !.rect = r, !.position = Midbottom(r),
                      !.velocity.y = 0]
    ELSE p

\* Player.clamp(screen_rect)
Clamp(p, screen_rect) ==
    IF ~Contains(screen_rect, p.rect)
    THEN LET r == ClampIp(p.rect, screen_rect)
         IN [p EXCEPT !.rect = r, !.position = Midbottom(r)]
    ELSE p

\* Lines 106-114 with the neutral branch zeroing the acceleration only.
ApplyKeys_NoHardStop(p, k) ==
    LET q == [p EXCEPT !.acceleration = Vec(0, GRAVITY)]
    IN IF k.right THEN [q EXCEPT !.acceleration.x = PLAYER_ACCELERATION]
       ELSE IF k.left THEN [q EXCEPT !.acceleration.x = -PLAYER_ACCELERATION]
       ELSE [q EXCEPT !.acceleration.x = 0]

\* Player.update, lines 106-114: gravity and the horizontal input.
ApplyKeys(p, k) ==
    LET q == [p EXCEPT !.acceleration = Vec(0, GRAVITY)]
    IN IF k.right THEN [q EXCEPT !.acceleration.x = PLAYER_ACCELERATION]
       ELSE IF k.left THEN [q EXCEPT !.acceleration.x = -PLAYER_ACCELERATION]
       ELSE [q EXCEPT !.acceleration.x = 0, !.velocity.x = 0]

\* The factor 0.5 * dt^2 (dt in seconds), in the unit of HalfDotDt.
HalfDotDt_HalfSquare(ms) == (ms * ms) \div 2000

\* vector(0.5, 0.5) * vector(dt, dt): the dot product of two Vector2,
\* 0.5 * dt + 0.5 * dt, a scalar (in milliseconds here).
HalfDotDt(ms) == (5 * ms + 5 * ms) \div 10

\* Lines 118-121 without the friction term.
Integrate_NoFriction(p, ms) ==
    LET acc == p.acceleration
        vel == Vec(p.velocity.x + acc.x, p.velocity.y + acc.y)
        f   == HalfDotDt(ms)
        pos == Vec(p.position.x + vel.x + RoundDiv(f * acc.x, 1000),
                   p.position.y + vel.y + RoundDiv(f * acc.y, 1000))
    IN [position |-> pos, velocity |-> vel, acceleration |-> acc,
        rect |-> SetMidbottom(p.rect, pos)]

\* Player.update, lines 118-121: friction, velocity, position, rect.
Integrate(p, ms) ==
    LET ax  == p.acceleration.x + RoundDiv(p.velocity.x * FRICTION_E2, 100)
        acc == Vec(ax, p.acceleration.y)
        vel == Vec(p.velocity.x + acc.x, p.velocity.y + acc.y)
        f   == HalfDotDt(ms)
        pos == Vec(p.position.x + vel.x + RoundDiv(f * acc.x, 1000),
                   p.position.y + vel.y + RoundDiv(f * acc.y, 1000))
    IN [position |-> pos, velocity |-> vel, acceleration |-> acc,
        rect |-> SetMidbottom(p.rect, pos)]

\* Lines 123-126 snapping to the last platform of the collision result.
Land_LastMatch(p, group) ==
    LET result == SpriteCollide(p.rect, group)
    IN IF result # <<>>
       THEN FixTop(p, group[result[Len(result)]].rect.y + 1)
       ELSE p

\* Player.update, lines 123-126: the landing test and the snap.
Land(p, group) ==
    LET result == SpriteCollide(p.rect, group)
    IN IF result # <<>> THEN FixTop(p, group[result[1]].rect.y + 1) ELSE p

\* Player.update, lines 128-130
EdgeStop(p) == IF ReachedEdge(p) THEN [p EXCEPT !.acceleration.x = 0] ELSE p

\* Player.update(keys, screen_rect, camera, dt): every intermediate player
\* of the step, in the order the code produces them.
PlayerUpdateSteps(p, k, screen_rect, group, ms) ==
    LET keyed  == ApplyKeys(p, k)
        jumped == IF k.space THEN Jump(keyed, group) ELSE keyed
        moved  == Integrate(jumped, ms)
        landed == Land(moved, group)
        edged  == EdgeStop(landed)
        result == Clamp(edged, screen_rect)
    IN [keyed |-> keyed, jumped |-> jumped, moved |-> moved,
        landed |-> landed, edged |-> edged, result |-> result]

PlayerUpdate(p, k, screen_rect, group, ms) ==
    PlayerUpdateSteps(p, k, screen_rect, group, ms).result

---------------------------------------------------------------------------
(* Platform (src/main.py:167-201): its start_pos and its rect. *)

\* Platform.__init__(camera, size, position, color)
PlatformInit(size, position) ==
    [start_pos |-> position, rect |-> GetRectTopright(size, position)]

\* Platform.draw shifting the rect it had by the camera offset.
PlatformDraw_Accumulate(pl, cam) ==
    [pl EXCEPT !.rect.x = @ - Trunc(Px(SCREEN_SIZE.w) - cam.position.x)]

\* Platform.draw(surface): assigns rect.x from the camera position.
PlatformDraw(pl, cam) ==
    [pl EXCEPT !.rect.x =
        Trunc(pl.start_pos.x - (Px(SCREEN_SIZE.w) - cam.position.x))]

---------------------------------------------------------------------------
(* Camera (src/main.py:204-231): its position and its scroll. *)

\* Camera.__init__(size, target)
CameraNew(size) ==
    [virtual_screen_size |-> size,
     position |-> Vec(Px(SCREEN_SIZE.w) \div 2, Px(SCREEN_SIZE.h) \div 2),
     scroll   |-> 0]

\* App.__init__: Camera(VIRTUAL_SCREEN_SIZE, self.player)
CameraInit == CameraNew(VIRTUAL_SCREEN_SIZE)

\* Camera.update with the step taken from the target's acceleration.x (the
\* alternative the source keeps in a comment) in place of the fixed 10.
CameraUpdate_Proportional(cam, target) ==
    IF target.acceleration.x = 0
    THEN [cam EXCEPT !.scroll = 0]
    ELSE IF /\ target.velocity.x < 0
            /\ target.position.x < Px((SCREEN_SIZE.w * 25) \div 100)
    THEN IF cam.position.x > Px(cam.virtual_screen_size.w - 10)
         THEN [cam EXCEPT !.position.x = @ + target.acceleration.x]
         ELSE cam
    ELSE IF /\ target.velocity.x > 0
            /\ target.position.x > Px((SCREEN_SIZE.w * 75) \div 100)
    THEN IF cam.position.x >= Px(cam.virtual_screen_size.w - 10)
         THEN [cam EXCEPT !.position.x = @ - target.acceleration.x]
         ELSE cam
    ELSE cam

\* Camera.update without the idle return and with both position guards
\* turned around.
CameraUpdate_NoIdle(cam, target) ==
    IF /\ target.velocity.x < 0
       /\ target.position.x < Px((SCREEN_SIZE.w * 25) \div 100)
    THEN IF cam.position.x <= Px(cam.virtual_screen_size.w - 10)
         THEN [cam EXCEPT !.position.x = @ + Px(SCROLL_PX)]
         ELSE cam
    ELSE IF /\ target.velocity.x > 0
            /\ target.position.x > Px((SCREEN_SIZE.w * 75) \div 100)
    THEN IF cam.position.x < Px(cam.virtual_screen_size.w - 10)
         THEN [cam EXCEPT !.position.x = @ - Px(SCROLL_PX)]
         ELSE cam
    ELSE cam

\* Camera.update with the guard of the scroll-left branch turned around.
CameraUpdate_GuardFlipped(cam, target) ==
    IF target.acceleration.x = 0
    THEN [cam EXCEPT !.scroll = 0]
    ELSE IF /\ target.velocity.x < 0
            /\ target.position.x < Px((SCREEN_SIZE.w * 25) \div 100)
    THEN IF cam.position.x > Px(cam.virtual_screen_size.w - 10)
         THEN [cam EXCEPT !.position.x = @ + Px(SCROLL_PX)]
         ELSE cam
    ELSE IF /\ target.velocity.x > 0
            /\ target.position.x > Px((SCREEN_SIZE.w * 75) \div 100)
    THEN IF cam.position.x < Px(cam.virtual_screen_size.w - 10)
         THEN [cam EXCEPT !.position.x = @ - Px(SCROLL_PX)]
         ELSE cam
    ELSE cam

\* Camera.update(target)
CameraUpdate(cam, target) ==
    IF target.acceleration.x = 0
    THEN [cam EXCEPT !.scroll = 0]
    ELSE IF /\ target.velocity.x < 0
            /\ target.position.x < Px((SCREEN_SIZE.w * 25) \div 100)
    THEN IF cam.position.x > Px(cam.virtual_screen_size.w - 10)
         THEN [cam EXCEPT !.position.x = @ + Px(SCROLL_PX)]
         ELSE cam
    ELSE IF /\ target.velocity.x > 0
            /\ target.position.x > Px((SCREEN_SIZE.w * 75) \div 100)
    THEN IF cam.position.x >= Px(cam.virtual_screen_size.w - 10)
         THEN [cam EXCEPT !.position.x = @ - Px(SCROLL_PX)]
         ELSE cam
    ELSE cam

---------------------------------------------------------------------------
(* DebugOverlay (src/main.py:38-80): its debug_text, held as the sequence  *)
(* of the values its five lines show.                                      *)

\* DebugOverlay.__init__
DebugOverlayInit == [debug_text |-> <<>>]

\* DebugOverlay.update(keys, screen_rect, dt): reads the player, writes the
\* overlay only.
DebugOverlayUpdate(ov, p, ms) ==
    [ov EXCEPT !.debug_text =
        <<SCREEN_SIZE, FPS, ms, p.position, p.acceleration>>]

\* DebugOverlay.update that writes the rounded position back to the player.
OverlayStep_WritesPlayer(ov, p, cam, ms) ==
    [overlay |-> DebugOverlayUpdate(ov, p, ms),
     player  |-> [p EXCEPT !.position =
                     Vec(Px(Trunc(p.position.x)), Px(Trunc(p.position.y)))],
     camera  |-> cam]

\* The overlay, the player it holds a reference to (self.player) and the
\* camera after DebugOverlay.update: the call reads the player and assigns
\* the overlay's own attributes only.
OverlayStep(ov, p, cam, ms) ==
    [overlay |-> DebugOverlayUpdate(ov, p, ms), player |-> p, camera |-> cam]

---------------------------------------------------------------------------
(* App (src/main.py:243-311) *)

\* pg.key.get_pressed(), the three keys the program reads; the inputs hold
\* at most one of left and right.
KeySet ==
    {k \in [right : BOOLEAN, left : BOOLEAN, space : BOOLEAN] :
        ~(k.right /\ k.left)}

NoKeys == [right |-> FALSE, left |-> FALSE, space |-> FALSE]

\* App.__init__: the player
AppPlayer == PlayerInit(Vec(Px(300), Px(200)))

\* App.__init__: all_platforms, platform1 then platform2, with platform2's
\* top at top2
LayoutPlatforms(top2) ==
    << PlatformInit([w |-> SCREEN_SIZE.w, h |-> 10],
                    Vec(Px(SCREEN_SIZE.w), Px(SCREEN_SIZE.h - 10))),
       PlatformInit([w |-> 200, h |-> 10],
                    Vec(Px(SCREEN_SIZE.w - 200), Px(top2))) >>

\* The layout with platform2 one pixel above platform1.
AppPlatforms_Close == LayoutPlatforms(SCREEN_SIZE.h - 11)

\* App.__init__: platform2's top is 300
AppPlatforms == LayoutPlatforms(300)

\* The number of consecutive steps, the last one included, that were taken
\* with left held alone (neither right nor space) and whose landing test
\* hit no platform, counted from a step that started with velocity (0, 0).
LeftRun(before, s) ==
    IF /\ keys.left /\ ~keys.right /\ ~keys.space
       /\ SpriteCollide(s.moved.rect, platforms) = <<>>
    THEN IF probe.leftRun > 0 THEN probe.leftRun + 1
         ELSE IF before.velocity = Vec(0, 0) THEN 1 ELSE 0
    ELSE 0

\* What the last App.update did (a history variable): the player before it,
\* the intermediate values of Player.update, the player handed to
\* Camera.update, the camera before it and the number of Camera.update calls.
ProbeOf(before, s, target, cam, calls) ==
    [before       |-> before,
     leftRun      |-> LeftRun(before, s),
     jumpVelY     |-> s.jumped.velocity.y,
     moved        |-> s.moved,
     hits         |-> SpriteCollide(s.moved.rect, platforms),
     preClamp     |-> s.edged,
     camTarget    |-> target,
     cameraBefore |-> cam,
     cameraCalls  |-> calls]

TypeOK ==
    /\ keys \in KeySet
    /\ dt \in {0, NominalTick, SlowTick}
    /\ pc \in {"event", "update", "draw", "tick"}
    /\ frame \in 0..MaxFrames
    /\ Len(platforms) = 2

\* App.__init__ with the given player, camera and platforms, followed by the first
\* lines of game_loop (dt = 0).
InitFull(p, cam, group) ==
    /\ keys \in KeySet
    /\ dt = 0
    /\ player = p
    /\ platforms = group
    /\ camera = cam
    /\ overlay = DebugOverlayInit
    /\ pc = "event"
    /\ frame = 0
    /\ probe = [before |-> p, leftRun |-> 0, jumpVelY |-> 0, moved |-> p, hits |-> <<>>,
                preClamp |-> p, camTarget |-> p, cameraBefore |-> cam,
                cameraCalls |-> 0]

InitOf(p, cam) == InitFull(p, cam, AppPlatforms)

InitWith(p) == InitOf(p, CameraInit)

\* App.__init__ followed by the first lines of game_loop (dt = 0).
Init == InitWith(AppPlayer)

\* App.event_loop with no KEYDOWN or KEYUP event in the queue.
EventLoopQuiet ==
    /\ pc = "event"
    /\ frame < MaxFrames
    /\ pc' = "update"
    /\ UNCHANGED <<keys, dt, player, platforms, camera, overlay, frame, probe>>

\* App.event_loop with a KEYDOWN or KEYUP event: keys = pg.key.get_pressed().
\* The model delivers key events every KeyPeriod frames.
EventLoopKeys ==
    /\ pc = "event"
    /\ frame < MaxFrames
    /\ frame > 0
    /\ frame % KeyPeriod = 0
    /\ \E k \in KeySet \ {keys} : keys' = k
    /\ pc' = "update"
    /\ UNCHANGED <<dt, player, platforms, camera, overlay, frame, probe>>

\* App.update with Camera.update called before the sprites' update.
AppUpdate_CameraFirst ==
    /\ pc = "update"
    /\ LET cam == CameraUpdate(camera, player)
           s   == PlayerUpdateSteps(player, keys, ScreenRect, platforms, dt)
           o   == OverlayStep(overlay, s.result, cam, dt)
       IN /\ player' = o.player
          /\ camera' = o.camera
          /\ overlay' = o.overlay
          /\ probe' = ProbeOf(player, s, player, camera, 1)
    /\ pc' = "draw"
    /\ UNCHANGED <<keys, dt, platforms, frame>>

\* App.update(dt): the sprites' update (Player.update; Platform.update does
\* nothing), then Camera.update, then DebugOverlay.update, which writes only
\* the overlay's own text.
AppUpdate ==
    /\ pc = "update"
    /\ LET s   == PlayerUpdateSteps(player, keys, ScreenRect, platforms, dt)
           cam == CameraUpdate(camera, s.result)
           o   == OverlayStep(overlay, s.result, cam, dt)
       IN /\ player' = o.player
          /\ camera' = o.camera
          /\ overlay' = o.overlay
          /\ probe' = ProbeOf(player, s, s.result, camera, 1)
    /\ pc' = "draw"
    /\ UNCHANGED <<keys, dt, platforms, frame>>

\* App.draw: every sprite's draw; Platform.draw writes the platform's rect.
AppDraw ==
    /\ pc = "draw"
    /\ platforms' = [i \in 1..Len(platforms) |->
                        PlatformDraw(platforms[i], camera)]
    /\ pc' = "tick"
    /\ UNCHANGED <<keys, dt, player, camera, overlay, frame, probe>>

\* game_loop: dt = self.clock.tick(self.fps) / 1000.0.  The model lets a
\* slow frame happen every KeyPeriod frames.
ClockTick ==
    /\ pc = "tick"
    /\ \E ms \in (IF frame % KeyPeriod = 0
                  THEN {NominalTick, SlowTick} ELSE {NominalTick}) : dt' = ms
    /\ frame' = frame + 1
    /\ pc' = "event"
    /\ UNCHANGED <<keys, player, platforms, camera, overlay, probe>>

Next == EventLoopQuiet \/ EventLoopKeys \/ AppUpdate \/ AppDraw \/ ClockTick

Spec == Init /\ [][Next]_vars

---------------------------------------------------------------------------
(* The drop scenario: a player constructed at one of a few positions, no   *)
(* key ever pressed.  The frame loop runs without pause, hence the weak    *)
(* fairness.                                                               *)

DropXs == {50, 300, 450}
DropYs == {0, 200}
SettleFrames == 60

InitDrop ==
    /\ \E x \in DropXs, y \in DropYs : InitWith(PlayerInit(Vec(Px(x), Px(y))))
    /\ keys = NoKeys

NextDrop == EventLoopQuiet \/ AppUpdate \/ AppDraw \/ ClockTick

SpecDrop == InitDrop /\ [][NextDrop]_vars /\ WF_vars(NextDrop)

---------------------------------------------------------------------------
(* The placed scenario: the frame loop of App with the player constructed *)
(* at one of the drop positions (App's own (300, 200) among them) and any  *)
(* keys.                                                                   *)

InitPlaced ==
    \E x \in DropXs, y \in DropYs : InitWith(PlayerInit(Vec(Px(x), Px(y))))

SpecPlaced == InitPlaced /\ [][Next]_vars

---------------------------------------------------------------------------
(* The camera scenario: the frame loop of App with the camera constructed  *)
(* for one of several virtual screen widths (App's own 1000 among them).   *)
(* For the narrow ones the camera's initial x is at or above width - 10,   *)
(* so that both scroll branches of Camera.update can move it.              *)

CameraWidths == {SCREEN_W \div 2, SCREEN_W \div 2 + SCROLL_PX, VIRTUAL_W}

InitCamera ==
    \E w \in CameraWidths :
        InitOf(AppPlayer, CameraNew([w |-> w, h |-> SCREEN_H]))

SpecCamera == InitCamera /\ [][Next]_vars

---------------------------------------------------------------------------
(* The layout scenario: the frame loop of App with platform2 constructed   *)
(* at one of several heights (App's own 300 among them).  At the lower     *)
(* ones the player's box, 40 high, can overlap platform1 and platform2 in  *)
(* the same collision test.                                                *)

Platform2Tops == {300, SCREEN_H - 15, SCREEN_H - 11}

InitLayout ==
    \E top2 \in Platform2Tops :
        InitFull(AppPlayer, CameraInit, LayoutPlatforms(top2))

SpecLayout == InitLayout /\ [][Next]_vars

---------------------------------------------------------------------------
(* Claims *)

\* App.update has just run: keys, dt and platforms are the ones it read.
Updated == pc = "draw"

Neutral(k) == ~k.right /\ ~k.left

HorizOver(r, b) == r.x < b.x + b.w /\ r.x + r.w > b.x

\* The box derived from a position with the bottom-center anchor.
BoxAt(pos) == SetMidbottom(Rect(0, 0, SPRITE_SIZE.w, SPRITE_SIZE.h), pos)

\* C1 (as stated): in a step whose landing test finds the player's box
\* overlapping a platform, the step ends with position.y at that platform's
\* top + 1 and velocity.y at 0.
C1_GroundingSnap ==
    (Updated /\ probe.hits # <<>>) =>
        /\ player.position.y = Px(platforms[probe.hits[1]].rect.y + 1)
        /\ player.velocity.y = 0

\* C2 (as stated): in the drop scenario, with the platform of top 390 (and
\* no other) under the body, after enough steps the body rests with
\* position.y = 391 and velocity.y = 0, and stays there.
C2_RestsAt391 ==
    ( /\ frame >= SettleFrames
      /\ platforms[1].rect.y = 390
      /\ HorizOver(player.rect, platforms[1].rect)
      /\ ~HorizOver(player.rect, platforms[2].rect) ) =>
        /\ player.position.y = Px(391)
        /\ player.velocity.y = 0

\* C3: in a step with jump input, velocity.y is assigned PLAYER_JUMP if and
\* only if the player's rect overlaps a platform at the jump test, whether or
\* not the key was already held; with no overlap the step ends as the same
\* step without jump input.
C3_JumpGating ==
    (Updated /\ keys.space) =>
        LET grounded == SpriteCollide(probe.before.rect, platforms) # <<>>
        IN /\ (probe.jumpVelY = PLAYER_JUMP) <=> grounded
           /\ ~grounded =>
                 player = PlayerUpdate(probe.before,
                                       [keys EXCEPT !.space = FALSE],
                                       ScreenRect, platforms, dt)

\* A jump taken in a frame where the key was held in the frame before too.
C3_Witness ==
    /\ Updated /\ keys.space
    /\ frame % KeyPeriod # 0
    /\ probe.jumpVelY = PLAYER_JUMP
    /\ player.velocity.y = PLAYER_JUMP + GRAVITY

\* C4 (as stated): the box read by the jump test and the box read by the
\* landing test are the box derived from the position the player has at
\* that test.
C4_BoxNeverStale ==
    Updated =>
        /\ keys.space => probe.before.rect = BoxAt(probe.before.position)
        /\ probe.moved.rect = BoxAt(probe.moved.position)

\* C5 (as stated): the platform boxes the collision tests read are the ones
\* the platforms were created with, in every state.
C5_PlatformsImmutable ==
    \A i \in 1..Len(platforms) : platforms[i].rect = AppPlatforms[i].rect

\* C6: the player's rect lies inside the screen rectangle at the end of
\* every step, and a step whose clamp moved the rect ends with position at
\* the bottom-center of the clamped rect.
C6_ClampResync ==
    /\ Contains(ScreenRect, player.rect)
    /\ (Updated /\ player.rect # probe.preClamp.rect) =>
          player.position = Midbottom(player.rect)

\* A step whose clamp moved the rect and replaced the pre-clamp position.
C6_Witness ==
    /\ Updated
    /\ player.rect # probe.preClamp.rect
    /\ player.position # probe.preClamp.position

\* C7: a step with neither left nor right pressed ends with velocity.x = 0
\* and its integration leaves position.x where it was.
C7_NeutralHardStop ==
    (Updated /\ Neutral(keys)) =>
        /\ player.velocity.x = 0
        /\ probe.moved.position.x = probe.before.position.x

\* A neutral step taken with a nonzero velocity.x.
C7_Witness ==
    Updated /\ Neutral(keys) /\ probe.before.velocity.x # 0

C9_CameraBounds ==
    /\ camera.position.x >= Px(SCREEN_SIZE.w) \div 2
    /\ camera.position.x <= Px(VIRTUAL_SCREEN_SIZE.w) - Px(SCREEN_SIZE.w) \div 2

\* A camera update that ran its scroll-left test: the player accelerating,
\* moving right, past 75% of the screen width.
C9_Witness ==
    /\ Updated
    /\ probe.camTarget.acceleration.x # 0
    /\ probe.camTarget.velocity.x > 0
    /\ probe.camTarget.position.x > Px((SCREEN_SIZE.w * 75) \div 100)

\* C10 (as stated): the camera update of a step observes the player's
\* position before the screen clamp, and happens once per step.
C10_CameraBeforeClamp ==
    Updated =>
        /\ probe.camTarget.position = probe.preClamp.position
        /\ probe.cameraCalls = 1

\* C10 (amended): the step integrates, resolves the platform collision,
\* clamps the player to the screen and only then updates the camera, once:
\* the camera update observes the player as the clamp left it.
C10_CameraAfterClamp ==
    Updated =>
        /\ probe.preClamp = EdgeStop(Land(probe.moved, platforms))
        /\ player = Clamp(probe.preClamp, ScreenRect)
        /\ probe.camTarget = player
        /\ camera = CameraUpdate(probe.cameraBefore, player)
        /\ probe.cameraCalls = 1

\* A step whose clamp changed the position the camera then observed.
C10_Witness ==
    /\ Updated
    /\ probe.preClamp.position # player.position
    /\ probe.camTarget.position = player.position


\* The velocity the integration of the last step started from: velocity.x
\* after the key handling, velocity.y after the jump.
PreVelocity ==
    Vec(IF Neutral(keys) THEN 0 ELSE probe.before.velocity.x, probe.jumpVelY)

C12_OverlayPureRead ==
    Updated =>
        /\ player = PlayerUpdate(probe.before, keys, ScreenRect, platforms, dt)
        /\ camera = CameraUpdate(probe.cameraBefore, player)
        /\ overlay.debug_text =
              <<SCREEN_SIZE, FPS, dt, player.position, player.acceleration>>

\* An overlay update that captured a player off the pixel grid, in a later
\* frame of the loop.
C12_Witness ==
    /\ Updated
    /\ frame > 0
    /\ overlay.debug_text[4] = player.position
    /\ Px(Trunc(player.position.y)) # player.position.y


Abs(n) == IF n < 0 THEN -n ELSE n

\* accel / -friction
DragLimit == (PLAYER_ACCELERATION * 100) \div (-FRICTION_E2)

StrictSteps == 60

C14_ScrollTransitions ==
    (Updated /\ probe.camTarget.acceleration.x # 0) =>
        LET t     == probe.camTarget
            c0    == probe.cameraBefore
            limit == Px(c0.virtual_screen_size.w - 10)
            up    == /\ t.velocity.x < 0
                     /\ t.position.x < Px(150)
                     /\ c0.position.x > limit
            down  == /\ t.velocity.x > 0
                     /\ t.position.x > Px(450)
                     /\ c0.position.x >= limit
        IN  /\ (camera.position.x = c0.position.x + Px(10)) <=> up
            /\ (camera.position.x = c0.position.x - Px(10)) <=> down
            /\ (~up /\ ~down) => camera.position = c0.position
            /\ camera.position.y = c0.position.y

\* A slow step (dt = 100 ms) in which the camera went up by 10, and not
\* for the first time.
C14_Witness ==
    /\ Updated
    /\ dt = SlowTick
    /\ probe.camTarget.acceleration.x # 0
    /\ camera.position.x = probe.cameraBefore.position.x + Px(10)
    /\ camera.position.x >= CameraInit.position.x + Px(20)


\* C15: right after every draw, each platform's rect.x is its start
\* anchor's x minus (screen width - camera.position.x), whole pixels; the
\* anchor is the one the platform was constructed with, and so are the
\* rect's y and size.
C15_PlatformProjection ==
    pc = "tick" =>
        \A i \in 1..Len(platforms) :
            /\ platforms[i].start_pos = AppPlatforms[i].start_pos
            /\ platforms[i].rect.x =
                  (AppPlatforms[i].start_pos.x - Px(SCREEN_W)
                      + camera.position.x) \div Scale
            /\ platforms[i].rect.y = AppPlatforms[i].rect.y
            /\ platforms[i].rect.w = AppPlatforms[i].rect.w
            /\ platforms[i].rect.h = AppPlatforms[i].rect.h

\* A draw at a camera position that differs from the one of the draw
\* before it and from the initial one.
C15_Witness ==
    /\ pc = "tick"
    /\ probe.cameraBefore.position.x # CameraInit.position.x
    /\ camera.position.x > probe.cameraBefore.position.x
    /\ platforms[1].rect.x > AppPlatforms[1].rect.x + SCREEN_W \div 2


\* C16: when the landing test of a step hits more than one platform, the
\* first of the hits is platform1, the platform registered first, and the
\* snap is the one computed from platform1's rect.
C16_FirstMatch ==
    (Updated /\ Len(probe.hits) > 1) =>
        /\ probe.hits[1] = 1
        /\ probe.preClamp.position.y =
              FixTop(probe.moved, platforms[1].rect.y + 1).position.y
        /\ probe.preClamp.velocity.y = 0

\* A landing test that hit both platforms, with platform2 the higher one
\* and the one whose top is closer to the player's feet.
C16_Witness ==
    /\ Updated
    /\ probe.hits = <<1, 2>>
    /\ platforms[2].rect.y < platforms[1].rect.y
    /\ probe.preClamp.position.y #
          FixTop(probe.moved, platforms[2].rect.y + 1).position.y


\* C17: in every state of App the camera is at (300, 200), the middle of
\* the screen, and its scroll is 0.
C17_CameraNeverMoves ==
    /\ camera.position = Vec(Px(300), Px(200))
    /\ camera.scroll = 0

\* A camera update that got as far as the guard of the scroll-right branch:
\* the player accelerating and moving left in the left quarter of the screen.
C17_Witness ==
    /\ Updated
    /\ frame > KeyPeriod
    /\ probe.camTarget.acceleration.x # 0
    /\ probe.camTarget.velocity.x < 0
    /\ probe.camTarget.position.x < Px(150)
    /\ camera.position.x <= Px(VIRTUAL_SCREEN_SIZE.w - 10)


\* C18: with App's layout, no collision test of a step (the landing test,
\* the test of jump) finds the player's box on both platforms, and the
\* box the player ends a step with is on one platform at most.
C18_UnambiguousGrounding ==
    /\ Len(probe.hits) <= 1
    /\ Len(SpriteCollide(probe.before.rect, platforms)) <= 1
    /\ Len(SpriteCollide(player.rect, platforms)) <= 1

\* A step with space held whose jump test hit platform2, the platform
\* registered second, alone, taken after a step that landed on it.
C18_Witness ==
    /\ Updated
    /\ keys.space
    /\ SpriteCollide(probe.before.rect, platforms) = <<2>>
    /\ probe.before.velocity.y = 0
    /\ probe.jumpVelY = PLAYER_JUMP


\* The clamp of the last step moved the player's rect up to the bottom edge
\* of the screen, and the landing test of the step hit no platform.
HeldAtBottom ==
    /\ Updated
    /\ probe.hits = <<>>
    /\ player.rect.y < probe.preClamp.rect.y
    /\ player.rect.y + player.rect.h = SCREEN_SIZE.h

\* C19: the clamp of a step leaves the player's velocity and acceleration
\* as they were before it; and a step that ends held at the bottom edge by
\* the clamp with no platform hit ends with velocity.y = the velocity.y
\* before the step + 0.5.
C19_ClampKeepsVelocity ==
    /\ Updated =>
          /\ player.velocity = probe.preClamp.velocity
          /\ player.acceleration = probe.preClamp.acceleration
    /\ HeldAtBottom =>
          player.velocity.y = probe.before.velocity.y + GRAVITY

\* Held at the bottom edge with a velocity.y above 20, more than a free
\* fall over the screen's height reaches: it grew while the player was held.
C19_Witness ==
    /\ HeldAtBottom
    /\ player.velocity.y > Px(20)
    /\ player.position.y = Px(SCREEN_SIZE.h)

====
